---------------------------- MODULE Spec2Model ----------------------------
(***************************************************************************)
(* A model of src/cli.ts: the sliding-window RateLimiter, the chunked      *)
(* runner parallelChunked, the paginated fetchAll* accumulators and the    *)
(* bulk commands built from them.                                          *)
(*                                                                         *)
(* JavaScript runs one synchronous segment at a time, so every action      *)
(* below is one such segment: the code between two awaits.                 *)
(*                                                                         *)
(* Time.  The code stores Date.now() values and only ever looks at         *)
(* differences `now - t`.  The model keeps those differences: an entry of  *)
(* timestamps[l] is the age now - t of a recorded permit, and Tick lets    *)
(* TickMs milliseconds pass.  An age stops growing at windowMs, where the  *)
(* filter of acquire() drops the entry whatever its exact value.  The      *)
(* clock is taken to be monotone.                                          *)
(***************************************************************************)
EXTENDS Integers, Sequences, FiniteSets, TLC

\* ------------------------------------------------------------- bounds
\* Milliseconds that pass in one Tick.
TickMs == 10
\* The (maxRequests, windowMs) every limiter of the model is built with; the
\* source's budgets (45/60000 ... 5000/60000) are scaled down to these.
MaxRequests == 2
WindowMs == 20
\* The limiter scenario: its concurrent callers, and the acquire() calls they
\* make between them.
NumCallers == 3
MaxCalls == 5
\* The burst scenario: the most acquire() calls issued at one instant.
MaxBurst == 5
\* Longest item sequence handed to parallelChunked.
MaxItems == 3
\* Pagination: the pages of a chain and the items of a page (the source asks
\* for limit: 100).
MaxPages == 3
PageLimit == 1
\* The chunk size of the call sites: see ChunkOf.
SiteChunk == 2
\* Commands the operator types in the session scenario.
MaxCmds == 2
\* Page requests after which a fetch that runs in a circle is cut off.
MaxPageReqs == MaxPages + 2

\* ---------------------------------------------------------- constants
\* acquire(): the safety margin added to the wait, in ms.
Margin == 10

Max(a, b) == IF a >= b THEN a ELSE b
Min(a, b) == IF a <= b THEN a ELSE b

LimiterNames == {"deleteOrg", "userWrite", "userRead", "orgOp"}

\* const rateLimiters = { deleteOrg: new RateLimiter(..), ... }
rateLimiters ==
    [l \in LimiterNames |-> [maxRequests |-> MaxRequests, windowMs |-> WindowMs]]

\* Who can be inside acquire(): caller 0 is a command handler (and the
\* pagination loop it runs), caller k >= 1 the action of item k of a chunked
\* run, or the k-th free caller of the limiter and burst scenarios.
CallerIds == 0 .. Max(Max(NumCallers, MaxItems), MaxBurst)

VARIABLES
    timestamps,  \* [limiter -> sequence of ages]: RateLimiter.timestamps
    acq,         \* [caller -> its position inside acquire()]
    recent,      \* history: per limiter, the ages (< windowMs) of every permit granted
    calls,       \* limiter scenario: acquire() calls made so far
    sinceBurst,  \* history: ms since the burst scenario's calls (-1: no burst)
    site,        \* the call site whose item action parallelChunked runs
    withOrg,     \* createUsers: whether args[1] (orgId) was given
    items,       \* parallelChunked: items
    chunkSize,   \* parallelChunked: chunkSize
    i,           \* parallelChunked: the loop index
    results,     \* parallelChunked: results
    rpc,         \* parallelChunked: "idle", "running", "returned" or "thrown"
    task,        \* [item index -> the state of fn(items[index])]
    counters,    \* created / deleted / skipped / failed of the running command
    seen,        \* history: failed deletions by what their message says
    settled,     \* history: the item indices in the order their actions ended
    pages,       \* the remote collection, as the chain of pages the API serves
    fkind,       \* which fetchAll* runs: "users", "orgs" or "memberships"
    fpc,         \* fetchAll*: "idle", "acquire", "request", "returned", "thrown"
    after,       \* fetchAll*: after
    acc,         \* fetchAll*: users / orgs / memberships
    pageReqs,    \* history: the cursors of the page requests issued, in order
    fetchAcqs,   \* history: acquire() calls the fetch loop has made
    pageFailed,  \* history: a page request of the fetch has failed
    cmd,         \* the command the prompt dispatched last
    arg0,        \* whether the command was given args[0]
    hpc,         \* where its handler is: "prompt" (not running), "fetch",
                 \* "confirm", "run", "acquire", "call", or "exited"
    ncmd,        \* history: commands dispatched
    ended,       \* how the last handler ended: "none", "returned" or "threw"
    out          \* what the command has printed, but for the per-item lines

limiterVars == <<timestamps, acq, recent>>
scenVars == <<calls, sinceBurst>>
runnerVars == <<site, withOrg, items, chunkSize, i, results, rpc, task, counters, seen,
               settled>>
fetchVars == <<pages, fkind, fpc, after, acc, pageReqs, fetchAcqs, pageFailed>>
cmdVars == <<cmd, arg0, hpc, ncmd, ended, out>>
vars == <<timestamps, acq, recent, calls, sinceBurst, site, withOrg, items,
          chunkSize, i, results, rpc, task, counters, seen, settled, pages, fkind, fpc, after,
          acc, pageReqs, fetchAcqs, pageFailed, cmd, arg0, hpc, ncmd, ended, out>>

\* Not inside acquire().  `waits` is history: how often the current call has
\* been suspended (2 stands for twice or more).
NoAcq == [st |-> "none", lim |-> "none", timer |-> 0, waits |-> 0]

\* ------------------------------------------------------- RateLimiter
\* private timestamps: number[] = [], and nobody inside acquire().
InitLimiter ==
    /\ timestamps = [l \in LimiterNames |-> << >>]
    /\ recent = [l \in LimiterNames |-> << >>]
    /\ acq = [c \in CallerIds |-> NoAcq]

\* this.timestamps.filter((t) => now - t < this.windowMs)
PurgeKeepsAll(l, ts) == ts
PurgeInclusive(l, ts) ==
    SelectSeq(ts, LAMBDA age : age <= rateLimiters[l].windowMs)
Purge(l, ts) == SelectSeq(ts, LAMBDA age : age < rateLimiters[l].windowMs)

\* this.timestamps.length >= this.maxRequests
IsFullWrongField(l, ts) == Len(ts) >= rateLimiters[l].windowMs
IsFullOffByOne(l, ts) == Len(ts) > rateLimiters[l].maxRequests
IsFull(l, ts) == Len(ts) >= rateLimiters[l].maxRequests

\* this.timestamps[0] + this.windowMs - now + 10
WaitTime(l, ts) == rateLimiters[l].windowMs - ts[1] + Margin

\* One run of acquire()'s synchronous part by caller c on limiter l, as a
\* pair <<timestamps', acq'>> computed from <<ts, aq>>.
acquireNoRecheck(c, l, ts, aq) ==
    LET kept == Purge(l, ts[l]) IN
    IF IsFull(l, kept) /\ aq[c].st # "waiting"
    THEN << [ts EXCEPT ![l] = kept],
            [aq EXCEPT ![c] = [st |-> "waiting", lim |-> l,
                               timer |-> WaitTime(l, kept),
                               waits |-> Min(aq[c].waits + 1, 2)]] >>
    ELSE << [ts EXCEPT ![l] = Append(kept, 0)],
            [aq EXCEPT ![c] = [st |-> "granted", lim |-> l, timer |-> 0,
                               waits |-> aq[c].waits]] >>
acquire(c, l, ts, aq) ==
    LET kept == Purge(l, ts[l]) IN
    IF IsFull(l, kept)
    THEN << [ts EXCEPT ![l] = kept],
            [aq EXCEPT ![c] = [st |-> "waiting", lim |-> l,
                               timer |-> WaitTime(l, kept),
                               waits |-> Min(aq[c].waits + 1, 2)]] >>
    ELSE << [ts EXCEPT ![l] = Append(kept, 0)],
            [aq EXCEPT ![c] = [st |-> "granted", lim |-> l, timer |-> 0,
                               waits |-> aq[c].waits]] >>

\* The history of grants that goes with a run of acquire().
Record(c, l, aq2, rc) ==
    IF aq2[c].st = "granted" THEN [rc EXCEPT ![l] = Append(@, 0)] ELSE rc

\* TickMs pass: every age grows (up to windowMs), every pending timer runs down.
Older(l, ts) ==
    [j \in 1 .. Len(ts) |-> Min(ts[j] + TickMs, rateLimiters[l].windowMs)]

Tick ==
    /\ timestamps' = [l \in LimiterNames |-> Older(l, timestamps[l])]
    /\ recent' = [l \in LimiterNames |->
                    SelectSeq(Older(l, recent[l]),
                              LAMBDA age : age < rateLimiters[l].windowMs)]
    /\ acq' = [c \in CallerIds |->
                 [acq[c] EXCEPT !.timer = Max(0, @ - TickMs)]]
    /\ sinceBurst' = IF sinceBurst < 0 THEN sinceBurst
                     ELSE Min(sinceBurst + TickMs, WindowMs)
    /\ UNCHANGED <<calls, runnerVars, fetchVars, cmdVars>>

\* setTimeout(resolve, waitTime) has fired: `return this.acquire()`.
Wake(c) ==
    /\ acq[c].st = "waiting"
    /\ acq[c].timer = 0
    /\ LET r == acquire(c, acq[c].lim, timestamps, acq) IN
         /\ timestamps' = r[1]
         /\ acq' = r[2]
         /\ recent' = Record(c, acq[c].lim, r[2], recent)
    /\ UNCHANGED <<scenVars, runnerVars, fetchVars, cmdVars>>

\* ---------------------------------------------------- error messages
\* Strings are sequences of characters.  What a failed remote call can carry as
\* error.message: a text, or nothing (Missing).
Missing == [present |-> FALSE, text |-> << >>]
Text(s) == [present |-> TRUE, text |-> s]

Messages == <<
    Text(<<"O", "r", "g", "a", "n", "i", "z", "a", "t", "i", "o", "n", " ", "c", "a", "n", "n", "o", "t", " ", "b", "e", " ", "d", "e", "l", "e", "t", "e", "d">>),
    Text(<<"n", "e", "t", "w", "o", "r", "k", " ", "t", "i", "m", "e", "o", "u", "t">>),
    Missing,
    Text(<<"U", "N", "A", "B", "L", "E", " ", "T", "O", " ", "D", "E", "L", "E", "T", "E">>),
    Text(<<"C", "a", "n", "'", "t", " ", "B", "e", " ", "D", "e", "l", "e", "t", "e", "d">>),
    Text(<<"Y", "o", "u", " ", "C", "a", "n", "n", "o", "t", " ", "D", "e", "l", "e", "t", "e", " ", "i", "t">>),
    Text(<<"c", "a", "n", " ", "n", "o", "t", " ", "b", "e", " ", "d", "e", "l", "e", "t", "e", "d">>),
    Text(<<>>) >>
\* Messages[1] reads "Organization cannot be deleted", Messages[2] "network
\* timeout", Messages[3] is an error without a message, Messages[4] "UNABLE TO DELETE", Messages[5] "Can't Be Deleted",
\* Messages[6] "You Cannot Delete it", Messages[7] "can not be deleted" and
\* Messages[8] is the empty text.

UpperCase == <<"A", "B", "C", "D", "E", "F", "G", "H", "I", "J", "K", "L", "M", "N", "O", "P", "Q", "R", "S", "T", "U", "V", "W", "X", "Y", "Z">>
LowerCase == <<"a", "b", "c", "d", "e", "f", "g", "h", "i", "j", "k", "l", "m", "n", "o", "p", "q", "r", "s", "t", "u", "v", "w", "x", "y", "z">>

\* String.prototype.toLowerCase, on the characters the messages use.
Lower(ch) ==
    IF \E n \in DOMAIN UpperCase : UpperCase[n] = ch
    THEN LowerCase[CHOOSE n \in DOMAIN UpperCase : UpperCase[n] = ch]
    ELSE ch
KeepCase(s) == s
toLowerCase(s) == [j \in 1 .. Len(s) |-> Lower(s[j])]

\* String.prototype.includes
includes(s, sub) ==
    \E p \in 0 .. (Len(s) - Len(sub)) : SubSeq(s, p + 1, p + Len(sub)) = sub

\* deleteAllOrgs, the catch block: error.message?.toLowerCase() || "" and the test
\* of the four phrases.  TRUE: the failure is a skip.
IsSkip(m) ==
    LET msg == IF m.present THEN toLowerCase(m.text) ELSE << >> IN
    \/ includes(msg, <<"c", "a", "n", "n", "o", "t", " ", "b", "e", " ", "d", "e", "l", "e", "t", "e", "d">>)
    \/ includes(msg, <<"c", "a", "n", "'", "t", " ", "b", "e", " ", "d", "e", "l", "e", "t", "e", "d">>)
    \/ includes(msg, <<"c", "a", "n", "n", "o", "t", " ", "d", "e", "l", "e", "t", "e">>)
    \/ includes(msg, <<"u", "n", "a", "b", "l", "e", " ", "t", "o", " ", "d", "e", "l", "e", "t", "e">>)

\* ------------------------------------------------------ the prompt
\* A line printed by a handler or by the prompt.  A tally line carries its
\* counts; -1 stands for a count the line leaves out.
Line(name) == [line |-> name, count |-> 0, skipped |-> -1, failed |-> -1]

\* The prompt is waiting for its first line.
CmdIdle ==
    /\ cmd = "none"
    /\ arg0 = FALSE
    /\ hpc = "prompt"
    /\ ncmd = 0
    /\ ended = "none"
    /\ out = << >>

\* --------------------------------------------------- parallelChunked
Sites == {"createOrgs", "createUsers", "createOrgMembership", "listUsers",
          "deleteAllUsers", "deleteAllOrgs", "deleteAllMemberships"}

\* The limiter the item action of a call site acquires from.
LimiterOf(s) ==
    CASE s = "createOrgs" -> "orgOp"
      [] s = "listUsers" -> "userRead"
      [] s = "deleteAllOrgs" -> "deleteOrg"
      [] OTHER -> "userWrite"

\* What an item action resolves with: the user getUser returns for a
\* membership, or nothing (the other actions return no value).
Undefined == [kind |-> "undefined", id |-> 0]
User(id) == [kind |-> "user", id |-> id]

\* `invoked`, `c1`, `c2` and `err` are history: how often fn was called on the
\* item, how many first and second (createUsers: membership) remote calls it
\* issued, and whether one of them failed.
FreshTask == [st |-> "unstarted", step |-> 1, val |-> Undefined,
              invoked |-> 0, c1 |-> 0, c2 |-> 0, err |-> FALSE]
NoCounters == [created |-> 0, deleted |-> 0, skipped |-> 0, failed |-> 0]
NoneSeen == [nonDeletable |-> 0, other |-> 0]

RunnerIdle ==
    /\ site = "createOrgs"
    /\ withOrg = FALSE
    /\ items = << >>
    /\ chunkSize = 1
    /\ i = 0
    /\ results = << >>
    /\ rpc = "idle"
    /\ task = [k \in 1 .. MaxItems |-> FreshTask]
    /\ counters = NoCounters
    /\ seen = NoneSeen
    /\ settled = << >>

TaskIds == 1 .. MaxItems

\* its.slice(lo, lo + cs), as the indices (from 1) of the items.
SliceOverlap(its, cs, lo) ==
    [j \in 1 .. (Min(lo + cs + 1, Len(its)) - lo) |-> lo + j]
SliceOf(its, cs, lo) == [j \in 1 .. (Min(lo + cs, Len(its)) - lo) |-> lo + j]
\* The chunk of the running parallelChunked that starts after item lo.
Slice(lo) == SliceOf(items, chunkSize, lo)
Chunk(lo) == {Slice(lo)[j] : j \in DOMAIN Slice(lo)}

\* chunk.map(fn): fn is called on each item in turn and runs up to its first
\* await, which at every call site is the acquire() of the site's limiter.
RECURSIVE InvokeAll(_, _, _)
InvokeAll(ks, l, s) ==
    IF ks = << >> THEN s
    ELSE LET r == acquire(Head(ks), l, s[1], s[2]) IN
         InvokeAll(Tail(ks), l, <<r[1], r[2], Record(Head(ks), l, r[2], s[3])>>)

\* One pass of the for loop up to its await: the chunk after item lo of its
\* is sliced and fn is invoked on each of its items; tk are the item actions
\* so far.
Launch(s, its, cs, tk, lo) ==
    LET idx == SliceOf(its, cs, lo)
        r == InvokeAll(idx, LimiterOf(s), <<timestamps, acq, recent>>) IN
    /\ task' = [k \in TaskIds |->
                  IF \E j \in DOMAIN idx : idx[j] = k
                  THEN [tk[k] EXCEPT !.st = "acquire", !.step = 1,
                                     !.invoked = @ + 1]
                  ELSE tk[k]]
    /\ timestamps' = r[1]
    /\ acq' = r[2]
    /\ recent' = r[3]

\* A handler sets its counters to 0 and calls parallelChunked(its, fn, cs)
\* with the item action of call site s: up to the first await.
StartRun(s, wo, its, cs) ==
    /\ site' = s
    /\ withOrg' = wo
    /\ items' = its
    /\ chunkSize' = cs
    /\ counters' = NoCounters
    /\ seen' = NoneSeen
    /\ settled' = << >>
    /\ results' = << >>
    /\ i' = 0
    /\ IF 0 < Len(its)
       THEN /\ rpc' = "running"
            /\ Launch(s, its, cs, [k \in TaskIds |-> FreshTask], 0)
       ELSE /\ rpc' = "returned"
            /\ task' = [k \in TaskIds |-> FreshTask]
            /\ UNCHANGED limiterVars

\* The runner scenario: parallelChunked is called with the inputs drawn.
Run ==
    /\ rpc = "idle"
    /\ StartRun(site, withOrg, items, chunkSize)
    /\ UNCHANGED <<scenVars, fetchVars, cmdVars>>

\* The item action continues after its acquire(): it issues the remote call.
IssueCallNoAwait(k) ==
    /\ task[k].st = "acquire"
    /\ acq' = acq
    /\ task' = [task EXCEPT ![k] =
                  IF task[k].step = 1
                  THEN [@ EXCEPT !.st = "calling", !.c1 = @ + 1]
                  ELSE [@ EXCEPT !.st = "calling", !.c2 = @ + 1]]
    /\ UNCHANGED <<timestamps, recent, scenVars, site, withOrg, items, chunkSize,
                   i, results, rpc, counters, seen, settled, fetchVars, cmdVars>>
IssueCall(k) ==
    /\ task[k].st = "acquire"
    /\ acq[k].st = "granted"
    /\ acq' = [acq EXCEPT ![k] = NoAcq]
    /\ task' = [task EXCEPT ![k] =
                  IF task[k].step = 1
                  THEN [@ EXCEPT !.st = "calling", !.c1 = @ + 1]
                  ELSE [@ EXCEPT !.st = "calling", !.c2 = @ + 1]]
    /\ UNCHANGED <<timestamps, recent, scenVars, site, withOrg, items, chunkSize,
                   i, results, rpc, counters, seen, settled, fetchVars, cmdVars>>

\* The counters after the remote call of an item ended with r: 0 for success,
\* m > 0 for a failure carrying Messages[m].
CountDropsFailed(s, r, c) ==
    CASE s = "createOrgMembership" ->
           IF r = 0 THEN [c EXCEPT !.created = @ + 1] ELSE c
      [] s \in {"deleteAllUsers", "deleteAllMemberships"} ->
           IF r = 0 THEN [c EXCEPT !.deleted = @ + 1] ELSE c
      [] s = "deleteAllOrgs" ->
           IF r = 0 THEN [c EXCEPT !.deleted = @ + 1]
           ELSE IF IsSkip(Messages[r]) THEN [c EXCEPT !.skipped = @ + 1]
           ELSE [c EXCEPT !.failed = @ + 1]
      [] OTHER -> c
Count(s, r, c) ==
    CASE s = "createOrgMembership" ->
           IF r = 0 THEN [c EXCEPT !.created = @ + 1] ELSE c
      [] s \in {"deleteAllUsers", "deleteAllMemberships"} ->
           IF r = 0 THEN [c EXCEPT !.deleted = @ + 1]
           ELSE [c EXCEPT !.failed = @ + 1]
      [] s = "deleteAllOrgs" ->
           IF r = 0 THEN [c EXCEPT !.deleted = @ + 1]
           ELSE IF IsSkip(Messages[r]) THEN [c EXCEPT !.skipped = @ + 1]
           ELSE [c EXCEPT !.failed = @ + 1]
      [] OTHER -> c

\* TRUE when the text holds the phrase at some place, letter case ignored.
SameLetter(a, b) ==
    \/ a = b
    \/ \E n \in DOMAIN UpperCase : {a, b} = {UpperCase[n], LowerCase[n]}
HoldsPhrase(text, phrase) ==
    \E p \in 0 .. (Len(text) - Len(phrase)) :
        \A j \in 1 .. Len(phrase) : SameLetter(text[p + j], phrase[j])
NonDeletablePhrases == {
    <<"c", "a", "n", "n", "o", "t", " ", "b", "e", " ", "d", "e", "l", "e", "t", "e", "d">>,
    <<"c", "a", "n", "'", "t", " ", "b", "e", " ", "d", "e", "l", "e", "t", "e", "d">>,
    <<"c", "a", "n", "n", "o", "t", " ", "d", "e", "l", "e", "t", "e">>,
    <<"u", "n", "a", "b", "l", "e", " ", "t", "o", " ", "d", "e", "l", "e", "t", "e">> }
SaysNonDeletable(m) ==
    m.present /\ \E phrase \in NonDeletablePhrases : HoldsPhrase(m.text, phrase)

\* The history of failed deletions of deleteAllOrgs.
Saw(s, r, h) ==
    IF s = "deleteAllOrgs" /\ r > 0
    THEN IF SaysNonDeletable(Messages[r])
         THEN [h EXCEPT !.nonDeletable = @ + 1]
         ELSE [h EXCEPT !.other = @ + 1]
    ELSE h

\* The remote call of item k has ended with r; the item action runs on to its
\* next await or to its end.
Respond(k, r) ==
    /\ task[k].st = "calling"
    /\ IF site = "createUsers" /\ withOrg /\ task[k].step = 1 /\ r = 0
       THEN \* await rateLimiters.userWrite.acquire() for the membership
            LET a == acquire(k, "userWrite", timestamps, acq) IN
            /\ timestamps' = a[1]
            /\ acq' = a[2]
            /\ recent' = Record(k, "userWrite", a[2], recent)
            /\ task' = [task EXCEPT ![k].st = "acquire", ![k].step = 2]
            /\ UNCHANGED <<counters, seen, settled>>
       ELSE /\ task' = [task EXCEPT ![k] =
                          IF site = "listUsers"
                          THEN IF r = 0
                               THEN [@ EXCEPT !.st = "resolved",
                                              !.val = User(items[k])]
                               ELSE [@ EXCEPT !.st = "rejected", !.err = TRUE]
                          ELSE [@ EXCEPT !.st = "resolved", !.err = (r > 0)]]
            /\ counters' = Count(site, r, counters)
            /\ seen' = Saw(site, r, seen)
            /\ settled' = Append(settled, k)
            /\ UNCHANGED limiterVars
    /\ UNCHANGED <<scenVars, site, withOrg, items, chunkSize, i, results, rpc,
                   fetchVars, cmdVars>>

\* await Promise.all(...) of the chunk: fulfilled once every promise is.
AnySettled(lo) == \E k \in Chunk(lo) : task[k].st = "resolved"
AllFulfilled(lo) == \A k \in Chunk(lo) : task[k].st = "resolved"

\* chunkResults, in the order of the chunk's items.
ChunkResultsReversed(lo) ==
    [j \in DOMAIN Slice(lo) |-> task[Slice(lo)[Len(Slice(lo)) + 1 - j]].val]
ChunkResults(lo) == [j \in DOMAIN Slice(lo) |-> task[Slice(lo)[j]].val]

\* The chunk is done: results.push(...chunkResults), i += chunkSize, and the
\* loop goes on to the next chunk or ends.
ChunkDone ==
    /\ rpc = "running"
    /\ AllFulfilled(i)
    /\ results' = results \o ChunkResults(i)
    /\ i' = i + chunkSize
    /\ IF i + chunkSize < Len(items)
       THEN Launch(site, items, chunkSize, task, i + chunkSize) /\ UNCHANGED rpc
       ELSE rpc' = "returned" /\ UNCHANGED <<task, limiterVars>>
    /\ UNCHANGED <<scenVars, site, withOrg, items, chunkSize, counters, seen, settled,
                   fetchVars, cmdVars>>

\* Promise.all rejects with the first rejection: parallelChunked throws.
ChunkRejected ==
    /\ rpc = "running"
    /\ \E k \in Chunk(i) : task[k].st = "rejected"
    /\ rpc' = "thrown"
    /\ UNCHANGED <<limiterVars, scenVars, site, withOrg, items, chunkSize, i,
                   results, task, counters, seen, settled, fetchVars, cmdVars>>

\* ------------------------------------------------------- fetchAll*
\* A cursor: absent (undefined), or the token that leads to a page.  The
\* tokens the API hands out are non-empty strings, so `!listMetadata?.after`
\* is true of the absent cursor alone.
Absent == [present |-> FALSE, page |-> 0]
Token(p) == [present |-> TRUE, page |-> p]

RECURSIVE SumTo(_, _)
SumTo(sizes, p) == IF p = 0 THEN 0 ELSE sizes[p] + SumTo(sizes, p - 1)

\* The chain that serves items 1, 2, ... in pages of the given sizes; the last
\* page carries the cursor `last` (Absent, unless the chain runs in a circle).
ChainOf(sizes, last) ==
    [p \in 1 .. Len(sizes) |->
        [data |-> [j \in 1 .. sizes[p] |-> SumTo(sizes, p - 1) + j],
         after |-> IF p < Len(sizes) THEN Token(p + 1) ELSE last]]

\* The remote list call: the page a request with cursor c is answered with.
PageAt(c) == IF c.present THEN pages[c.page] ELSE pages[1]

\* The limiter each fetchAll* acquires from.
FetchLimiter(kind) == IF kind = "orgs" THEN "orgOp" ELSE "userRead"

FetchIdle ==
    /\ pages = ChainOf(<<0>>, Absent)
    /\ fkind = "users"
    /\ fpc = "idle"
    /\ after = Absent
    /\ acc = << >>
    /\ pageReqs = << >>
    /\ fetchAcqs = 0
    /\ pageFailed = FALSE

\* `await rateLimiters.<l>.acquire()` at the top of the while loop, by caller 0.
LoopAcquire(kind) ==
    LET r == acquire(0, FetchLimiter(kind), timestamps, acq) IN
    /\ timestamps' = r[1]
    /\ acq' = r[2]
    /\ recent' = Record(0, FetchLimiter(kind), r[2], recent)
    /\ fetchAcqs' = fetchAcqs + 1

\* fetchAllUsers() / fetchAllOrgs() / fetchAllMemberships() is called.
StartFetchKeepsAcc(kind) ==
    /\ fkind' = kind
    /\ acc' = acc
    /\ after' = Absent
    /\ pageReqs' = << >>
    /\ pageFailed' = FALSE
    /\ fpc' = "acquire"
    /\ LET r == acquire(0, FetchLimiter(kind), timestamps, acq) IN
         /\ timestamps' = r[1]
         /\ acq' = r[2]
         /\ recent' = Record(0, FetchLimiter(kind), r[2], recent)
    /\ fetchAcqs' = 1
StartFetch(kind) ==
    /\ fkind' = kind
    /\ acc' = << >>
    /\ after' = Absent
    /\ pageReqs' = << >>
    /\ pageFailed' = FALSE
    /\ fpc' = "acquire"
    /\ LET r == acquire(0, FetchLimiter(kind), timestamps, acq) IN
         /\ timestamps' = r[1]
         /\ acq' = r[2]
         /\ recent' = Record(0, FetchLimiter(kind), r[2], recent)
    /\ fetchAcqs' = 1

\* The permit is there: the list call goes out with the current cursor.
FetchRequest ==
    /\ fpc = "acquire"
    /\ acq[0].st = "granted"
    /\ Len(pageReqs) < MaxPageReqs
    /\ acq' = [acq EXCEPT ![0] = NoAcq]
    /\ pageReqs' = Append(pageReqs, after)
    /\ fpc' = "request"
    /\ UNCHANGED <<timestamps, recent, scenVars, runnerVars, pages, fkind, after,
                   acc, fetchAcqs, pageFailed, cmdVars>>

\* if (!listMetadata?.after) break;
StopOnEmpty(page) == ~page.after.present \/ page.data = << >>
IsLastPage(page) == ~page.after.present

\* The page arrives: push its items, then stop or go round the loop again.
FetchPageKeepsCursor ==
    /\ fpc = "request"
    /\ LET page == PageAt(after) IN
         /\ acc' = acc \o page.data
         /\ IF IsLastPage(page)
            THEN /\ fpc' = "returned"
                 /\ UNCHANGED <<after, limiterVars, fetchAcqs>>
            ELSE /\ after' = after
                 /\ fpc' = "acquire"
                 /\ LoopAcquire(fkind)
    /\ UNCHANGED <<scenVars, runnerVars, pages, fkind, pageReqs, pageFailed, cmdVars>>
FetchPage ==
    /\ fpc = "request"
    /\ LET page == PageAt(after) IN
         /\ acc' = acc \o page.data
         /\ IF IsLastPage(page)
            THEN /\ fpc' = "returned"
                 /\ UNCHANGED <<after, limiterVars, fetchAcqs>>
            ELSE /\ after' = page.after
                 /\ fpc' = "acquire"
                 /\ LoopAcquire(fkind)
    /\ UNCHANGED <<scenVars, runnerVars, pages, fkind, pageReqs, pageFailed, cmdVars>>

\* The list call fails: nothing catches it in fetchAll*, which throws.
FetchFailBreaks ==
    /\ fpc = "request"
    /\ fpc' = "returned"
    /\ pageFailed' = TRUE
    /\ UNCHANGED <<limiterVars, scenVars, runnerVars, pages, fkind, after, acc,
                   pageReqs, fetchAcqs, cmdVars>>
FetchFail ==
    /\ fpc = "request"
    /\ fpc' = "thrown"
    /\ pageFailed' = TRUE
    /\ UNCHANGED <<limiterVars, scenVars, runnerVars, pages, fkind, after, acc,
                   pageReqs, fetchAcqs, cmdVars>>

\* -------------------------------------------------------- commands
\* The chunk size a call site passes (45 for deleteAllOrgs, 100 for listUsers,
\* 50 for the others), scaled down.
ChunkOf(s) == IF s = "listUsers" THEN 2 * SiteChunk ELSE SiteChunk

BulkCreate == {"createOrgs", "createUsers"}
DeleteAll == {"deleteAllUsers", "deleteAllOrgs", "deleteAllMemberships"}
Fetching == {"createOrgMembership", "listOrgs", "listUsers"} \cup DeleteAll
Single == {"deleteOrg", "deleteUser"}
Plain == {"config", "help", "unknown"}

\* What the fetchAll* of a command lists.
FetchKindOf(c, given) ==
    CASE c \in {"createOrgMembership", "listOrgs", "deleteAllOrgs"} -> "orgs"
      [] c = "deleteAllUsers" -> "users"
      [] c = "deleteAllMemberships" -> "memberships"
      [] c = "listUsers" -> IF given THEN "memberships" ELSE "users"

\* A remote collection of n items as the API serves it: pages of PageLimit
\* items, the last one shorter.
Served(n) ==
    ChainOf([p \in 1 .. Max(1, (n + PageLimit - 1) \div PageLimit) |->
                Min(PageLimit, n - (p - 1) * PageLimit)], Absent)

\* parseInt(args[0], 10): NaN or an integer.
NaN == [nan |-> TRUE, n |-> 0]
Counts == {NaN} \cup {[nan |-> FALSE, n |-> n] : n \in -1 .. MaxItems}

\* What the operator may answer to confirm(): "y", "Y", "yes", "Yes", "n",
\* "no", "yeah" or nothing.
Answers == {<<"y">>, <<"Y">>, <<"y", "e", "s">>, <<"Y", "e", "s">>, <<"n">>, <<"n", "o">>, <<"y", "e", "a", "h">>, <<>>}
\* answer.toLowerCase() === "y" || answer.toLowerCase() === "yes"
confirmUnlessNo(answer) ==
    toLowerCase(answer) # <<"n">> /\ toLowerCase(answer) # <<"n", "o">>
confirm(answer) ==
    toLowerCase(answer) = <<"y">> \/ toLowerCase(answer) = <<"y", "e", "s">>

\* No parallelChunked and no fetchAll* of the dispatched command is running.
ResetRunner ==
    /\ site' = "createOrgs"
    /\ withOrg' = FALSE
    /\ items' = << >>
    /\ chunkSize' = 1
    /\ i' = 0
    /\ results' = << >>
    /\ rpc' = "idle"
    /\ task' = [k \in TaskIds |-> FreshTask]
    /\ counters' = NoCounters
    /\ seen' = NoneSeen
    /\ settled' = << >>
ResetFetch ==
    /\ fkind' = "users"
    /\ fpc' = "idle"
    /\ after' = Absent
    /\ acc' = << >>
    /\ pageReqs' = << >>
    /\ fetchAcqs' = 0
    /\ pageFailed' = FALSE

\* The prompt reads a line when no handler runs; the model has the operator
\* type it once the item actions a failed command left behind have ended.
AtPrompt ==
    /\ hpc = "prompt"
    /\ acq[0].st = "none"
    /\ \A k \in TaskIds : task[k].st \notin {"acquire", "calling"}

\* The handler returns (or, with how = "threw", the prompt's catch prints the
\* error), and the prompt is back.
Ends(how, lines) ==
    /\ hpc' = "prompt"
    /\ ended' = how
    /\ out' = lines

\* createOrgs <num>, createUsers <num> [orgId]
DispatchCreate(c, count, org) ==
    /\ AtPrompt
    /\ cmd' = c
    /\ arg0' = TRUE
    /\ ncmd' = ncmd + 1
    /\ IF count.nan \/ count.n < 1
       THEN /\ Ends("returned", <<Line("usage")>>)
            /\ ResetRunner
            /\ UNCHANGED limiterVars
       ELSE /\ hpc' = "run"
            /\ ended' = "none"
            /\ out' = << >>
            /\ StartRun(c, c = "createUsers" /\ org, [k \in 1 .. count.n |-> k],
                        ChunkOf(c))
    /\ ResetFetch
    /\ UNCHANGED <<scenVars, pages>>

\* createOrgMembership <userId>, listOrgs, listUsers [orgId], deleteAll*
DispatchFetching(c, given) ==
    /\ AtPrompt
    /\ cmd' = c
    /\ arg0' = given
    /\ ncmd' = ncmd + 1
    /\ IF c = "createOrgMembership" /\ ~given
       THEN /\ Ends("returned", <<Line("usage")>>)
            /\ ResetFetch
            /\ UNCHANGED <<limiterVars, pages>>
       ELSE /\ hpc' = "fetch"
            /\ ended' = "none"
            /\ out' = << >>
            /\ \E n \in 0 .. MaxItems : pages' = Served(n)
            /\ StartFetch(FetchKindOf(c, given))
    /\ ResetRunner
    /\ UNCHANGED scenVars

\* deleteOrg <orgId>, deleteUser <userId>
DispatchSingle(c, given) ==
    /\ AtPrompt
    /\ cmd' = c
    /\ arg0' = given
    /\ ncmd' = ncmd + 1
    /\ IF ~given
       THEN /\ Ends("returned", <<Line("usage")>>)
            /\ UNCHANGED limiterVars
       ELSE /\ hpc' = "acquire"
            /\ ended' = "none"
            /\ out' = << >>
            /\ LET l == IF c = "deleteOrg" THEN "deleteOrg" ELSE "userWrite"
                   r == acquire(0, l, timestamps, acq) IN
                 /\ timestamps' = r[1]
                 /\ acq' = r[2]
                 /\ recent' = Record(0, l, r[2], recent)
    /\ ResetRunner
    /\ ResetFetch
    /\ UNCHANGED <<scenVars, pages>>

\* config, help, or a word that is no command
DispatchPlain(c) ==
    /\ AtPrompt
    /\ cmd' = c
    /\ arg0' = FALSE
    /\ ncmd' = ncmd + 1
    /\ Ends(IF c = "unknown" THEN "none" ELSE "returned", <<Line(c)>>)
    /\ ResetRunner
    /\ ResetFetch
    /\ UNCHANGED <<limiterVars, scenVars, pages>>

\* exit, quit
Exit ==
    /\ AtPrompt
    /\ hpc' = "exited"
    /\ UNCHANGED <<limiterVars, scenVars, runnerVars, fetchVars, cmd, arg0, ncmd,
                   ended, out>>

\* `await fetchAll*()` continues with the collection.
AfterFetch ==
    /\ hpc = "fetch"
    /\ fpc = "returned"
    /\ IF Len(acc) = 0
       THEN /\ Ends("returned", Append(out, Line("none found")))
            /\ UNCHANGED <<limiterVars, runnerVars>>
       ELSE IF cmd = "listOrgs" \/ (cmd = "listUsers" /\ ~arg0)
       THEN /\ Ends("returned",
                    Append(out, [Line("listing") EXCEPT !.count = Len(acc)]))
            /\ UNCHANGED <<limiterVars, runnerVars>>
       ELSE IF cmd \in DeleteAll
       THEN /\ hpc' = "confirm"
            /\ out' = Append(out, [Line("found") EXCEPT !.count = Len(acc)])
            /\ UNCHANGED <<ended, limiterVars, runnerVars>>
       ELSE /\ hpc' = "run"
            /\ StartRun(cmd, FALSE, acc, ChunkOf(cmd))
            /\ UNCHANGED <<ended, out>>
    /\ UNCHANGED <<scenVars, fetchVars, cmd, arg0, ncmd>>

\* fetchAll* threw: nothing in the handler catches it.
FetchThrew ==
    /\ hpc = "fetch"
    /\ fpc = "thrown"
    /\ Ends("threw", Append(out, Line("error")))
    /\ UNCHANGED <<limiterVars, scenVars, runnerVars, fetchVars, cmd, arg0, ncmd>>

\* What the operator typed, as the terminal shows it: a yes ("y" or "yes" in
\* any letter case) or something else.
SaysYes(a) ==
    \E w \in {<<"y">>, <<"y", "e", "s">>} :
        Len(a) = Len(w) /\ \A j \in DOMAIN w : SameLetter(a[j], w[j])
Typed(a) == Line(IF SaysYes(a) THEN "typed yes" ELSE "typed no")

\* The operator answers the confirm() of a delete-all command.
Answer(a) ==
    /\ hpc = "confirm"
    /\ IF confirm(a)
       THEN /\ hpc' = "run"
            /\ StartRun(cmd, FALSE, acc, ChunkOf(cmd))
            /\ out' = Append(out, Typed(a))
            /\ UNCHANGED ended
       ELSE /\ Ends("returned", Append(Append(out, Typed(a)), Line("cancelled")))
            /\ UNCHANGED <<limiterVars, runnerVars>>
    /\ UNCHANGED <<scenVars, fetchVars, cmd, arg0, ncmd>>

\* The summary a handler prints after its parallelChunked, if it prints one.
Shown(n) == IF n > 0 THEN n ELSE -1
Summary(c) ==
    CASE c = "createOrgMembership" ->
           <<[Line("tally") EXCEPT !.count = counters.created]>>
      [] c \in {"deleteAllUsers", "deleteAllMemberships"} ->
           <<[Line("tally") EXCEPT !.count = counters.deleted,
                                   !.failed = Shown(counters.failed)]>>
      [] c = "deleteAllOrgs" ->
           <<[Line("tally") EXCEPT !.count = counters.deleted,
                                   !.skipped = Shown(counters.skipped),
                                   !.failed = Shown(counters.failed)]>>
      [] c = "listUsers" -> <<[Line("listing") EXCEPT !.count = Len(results)]>>
      [] OTHER -> << >>

\* `await parallelChunked(...)` continues: the handler runs to its end.
AfterRun ==
    /\ hpc = "run"
    /\ rpc = "returned"
    /\ Ends("returned", out \o Summary(cmd))
    /\ UNCHANGED <<limiterVars, scenVars, runnerVars, fetchVars, cmd, arg0, ncmd>>

\* parallelChunked threw: nothing in the handler catches it.
RunThrew ==
    /\ hpc = "run"
    /\ rpc = "thrown"
    /\ Ends("threw", Append(out, Line("error")))
    /\ UNCHANGED <<limiterVars, scenVars, runnerVars, fetchVars, cmd, arg0, ncmd>>

\* deleteOrg / deleteUser: the permit is there, the delete call goes out.
SingleIssue ==
    /\ hpc = "acquire"
    /\ acq[0].st = "granted"
    /\ acq' = [acq EXCEPT ![0] = NoAcq]
    /\ hpc' = "call"
    /\ UNCHANGED <<timestamps, recent, scenVars, runnerVars, fetchVars, cmd, arg0,
                   ncmd, ended, out>>

\* ... and ends: the handler logs the deletion, or throws.
SingleDone(ok) ==
    /\ hpc = "call"
    /\ IF ok
       THEN Ends("returned", Append(out, Line("deleted")))
       ELSE Ends("threw", Append(out, Line("error")))
    /\ UNCHANGED <<limiterVars, scenVars, runnerVars, fetchVars, cmd, arg0, ncmd>>

\* ----------------------------------------------- the runner scenario
\* parallelChunked on its own, for each call site's item action.
MaxChunk == 2
ItemSeqs == {[k \in 1 .. n |-> k] : n \in 0 .. MaxItems}

InitRun ==
    /\ InitLimiter
    /\ calls = 0
    /\ sinceBurst = -1
    /\ site \in Sites
    /\ withOrg \in (IF site = "createUsers" THEN BOOLEAN ELSE {FALSE})
    /\ items \in ItemSeqs
    /\ chunkSize \in 1 .. MaxChunk
    /\ i = 0
    /\ results = << >>
    /\ rpc = "idle"
    /\ task = [k \in 1 .. MaxItems |-> FreshTask]
    /\ counters = NoCounters
    /\ seen = NoneSeen
    /\ settled = << >>
    /\ FetchIdle
    /\ CmdIdle

NextRun ==
    \/ Tick
    \/ Run
    \/ \E k \in TaskIds : Wake(k)
    \/ \E k \in TaskIds : IssueCall(k)
    \/ \E k \in TaskIds : \E r \in 0 .. Len(Messages) : Respond(k, r)
    \/ ChunkDone
    \/ ChunkRejected

SpecRun == InitRun /\ [][NextRun]_vars

\* The item actions that have been started and have not ended.
InFlight == {k \in TaskIds : task[k].st \in {"acquire", "calling"}}
\* What the action of a call site gives for an item when it succeeds.
ActionResult(s, item) == IF s = "listUsers" THEN User(item) ELSE Undefined

\* --------------------------------------------- the limiter scenario
\* Free callers of one limiter instance.
RLInstance == "userWrite"
RLCallers == 1 .. NumCallers

InitRL ==
    /\ InitLimiter
    /\ calls = 0
    /\ sinceBurst = -1
    /\ RunnerIdle
    /\ FetchIdle
    /\ CmdIdle

\* A caller calls acquire().
Call(c) ==
    /\ acq[c].st = "none"
    /\ calls < MaxCalls
    /\ calls' = calls + 1
    /\ LET r == acquire(c, RLInstance, timestamps, acq) IN
         /\ timestamps' = r[1]
         /\ acq' = r[2]
         /\ recent' = Record(c, RLInstance, r[2], recent)
    /\ UNCHANGED <<sinceBurst, runnerVars, fetchVars, cmdVars>>

\* The caller's `await limiter.acquire()` continues.
Return(c) ==
    /\ acq[c].st = "granted"
    /\ acq' = [acq EXCEPT ![c] = NoAcq]
    /\ UNCHANGED <<timestamps, recent, scenVars, runnerVars, fetchVars, cmdVars>>

NextRL ==
    \/ Tick
    \/ \E c \in RLCallers : Call(c)
    \/ \E c \in RLCallers : Wake(c)
    \/ \E c \in RLCallers : Return(c)

SpecRL == InitRL /\ [][NextRL]_vars

\* ------------------------------------------- the pagination scenario
\* One fetchAll* against a chain of pages, finite or running in a circle.
RECURSIVE SizeSeqs(_)
SizeSeqs(m) ==
    IF m = 0 THEN {<< >>}
    ELSE {Append(sz, n) : sz \in SizeSeqs(m - 1), n \in 0 .. PageLimit}
Chains ==
    UNION {{ChainOf(sz, last) :
              last \in {Absent} \cup {Token(q) : q \in 1 .. Len(sz)}} :
           sz \in UNION {SizeSeqs(m) : m \in 1 .. MaxPages}}

InitPag ==
    /\ InitLimiter
    /\ calls = 0
    /\ sinceBurst = -1
    /\ RunnerIdle
    /\ pages \in Chains
    /\ fkind \in {"users", "orgs", "memberships"}
    /\ fpc = "idle"
    /\ after = Absent
    /\ acc = << >>
    /\ pageReqs = << >>
    /\ fetchAcqs = 0
    /\ pageFailed = FALSE
    /\ CmdIdle

Fetch ==
    /\ fpc = "idle"
    /\ StartFetch(fkind)
    /\ UNCHANGED <<scenVars, runnerVars, pages, cmdVars>>

NextPag ==
    \/ Tick
    \/ Fetch
    \/ Wake(0)
    \/ FetchRequest
    \/ FetchPage
    \/ FetchFail

SpecPag == InitPag /\ [][NextPag]_vars

\* The items of a finite chain, page after page.
RECURSIVE ItemsUpTo(_, _)
ItemsUpTo(chain, p) ==
    IF p = 0 THEN << >> ELSE ItemsUpTo(chain, p - 1) \o chain[p].data
IsFiniteChain(chain) == ~chain[Len(chain)].after.present

\* --------------------------------------------- the command scenario
\* A fresh process in which the operator runs one command.
InitCmd ==
    /\ InitLimiter
    /\ calls = 0
    /\ sinceBurst = -1
    /\ RunnerIdle
    /\ FetchIdle
    /\ CmdIdle

NextCmd ==
    \/ Tick
    \/ \E c \in BulkCreate, count \in Counts, org \in BOOLEAN :
          ncmd = 0 /\ DispatchCreate(c, count, org)
    \/ \E c \in Fetching, given \in BOOLEAN : ncmd = 0 /\ DispatchFetching(c, given)
    \/ \E c \in Single, given \in BOOLEAN : ncmd = 0 /\ DispatchSingle(c, given)
    \/ \E c \in Plain : ncmd = 0 /\ DispatchPlain(c)
    \/ Exit
    \/ \E c \in CallerIds : Wake(c)
    \/ FetchRequest
    \/ FetchPage
    \/ FetchFail
    \/ AfterFetch
    \/ FetchThrew
    \/ \E a \in Answers : Answer(a)
    \/ \E k \in TaskIds : IssueCall(k)
    \/ \E k \in TaskIds : \E r \in 0 .. Len(Messages) : Respond(k, r)
    \/ ChunkDone
    \/ ChunkRejected
    \/ AfterRun
    \/ RunThrew
    \/ SingleIssue
    \/ \E ok \in BOOLEAN : SingleDone(ok)

SpecCmd == InitCmd /\ [][NextCmd]_vars

\* --------------------------------------------- the session scenario
\* One process in which the operator runs several commands, one after the
\* other: deleteUser <id>, deleteOrg <id> and deleteAllUsers.
NextSession ==
    \/ Tick
    \/ ncmd < MaxCmds /\ DispatchFetching("deleteAllUsers", FALSE)
    \/ \E c \in Single : ncmd < MaxCmds /\ DispatchSingle(c, TRUE)
    \/ \E c \in CallerIds : Wake(c)
    \/ FetchRequest
    \/ FetchPage
    \/ FetchFail
    \/ AfterFetch
    \/ FetchThrew
    \/ \E a \in {<<"y">>, <<"n">>} : Answer(a)
    \/ \E k \in TaskIds : IssueCall(k)
    \/ \E k \in TaskIds : \E r \in 0 .. 1 : Respond(k, r)
    \/ ChunkDone
    \/ AfterRun
    \/ SingleIssue
    \/ \E ok \in BOOLEAN : SingleDone(ok)

SpecSession == InitCmd /\ [][NextSession]_vars

\* ----------------------------------------------- the burst scenario
\* K callers call acquire() on a fresh limiter in the same instant, one
\* synchronous part after the other, and nobody calls afterwards.
RECURSIVE BurstFrom(_, _, _)
BurstFrom(c, K, r) ==
    IF c > K THEN r
    ELSE LET a == acquire(c, RLInstance, r[1], r[2]) IN
         BurstFrom(c + 1, K, <<a[1], a[2], Record(c, RLInstance, a[2], r[3])>>)

Burst(K) ==
    /\ sinceBurst < 0
    /\ LET r == BurstFrom(1, K, <<timestamps, acq, recent>>) IN
         /\ timestamps' = r[1]
         /\ acq' = r[2]
         /\ recent' = r[3]
    /\ calls' = K
    /\ sinceBurst' = 0
    /\ UNCHANGED <<runnerVars, fetchVars, cmdVars>>

NextBurst ==
    \/ Tick
    \/ \E K \in (MaxRequests + 1) .. MaxBurst : Burst(K)
    \/ \E c \in 1 .. MaxBurst : Wake(c)
    \/ \E c \in 1 .. MaxBurst : Return(c)

SpecBurst == InitRL /\ [][NextBurst]_vars

\* The same callers under the scheduling the runtime guarantees: time passes,
\* a due timer fires, a resolved await continues.
SpecRLFair ==
    /\ SpecRL
    /\ WF_vars(Tick)
    /\ \A c \in RLCallers : WF_vars(Wake(c)) /\ WF_vars(Return(c))

\* C1: at no instant do more than maxRequests granted permits lie in the
\* trailing window (now - windowMs, now] of a limiter.
WindowInvariant ==
    \A l \in LimiterNames : Len(recent[l]) <= rateLimiters[l].maxRequests

\* A limiter holds maxRequests fresh permits while a caller waits on it.
WindowFullWitness ==
    \E c \in RLCallers :
        /\ acq[c].st = "waiting"
        /\ Len(recent[acq[c].lim]) = rateLimiters[acq[c].lim].maxRequests

\* C2: every acquire() call eventually returns: a caller inside acquire()
\* (suspended or just admitted) is eventually back in its own code.
AcquireReturns ==
    \A c \in RLCallers : (acq[c].st # "none") ~> (acq[c].st = "none")

\* A call that was suspended twice has been admitted.
AcquireReturnsWitness ==
    \E c \in RLCallers : acq[c].st = "granted" /\ acq[c].waits = 2

\* C3: the k-th element of what parallelChunked returns is the result of the
\* action on the k-th item, whatever the order in which the actions ended.
OrderPreserved ==
    rpc = "returned" =>
        /\ Len(results) = Len(items)
        /\ \A k \in 1 .. Len(items) : results[k] = ActionResult(site, items[k])

\* listUsers has returned its users although a later item of a chunk ended
\* before an earlier one.
OrderPreservedWitness ==
    /\ rpc = "returned"
    /\ site = "listUsers"
    /\ Len(items) >= 2
    /\ \E a, b \in 1 .. Len(settled) : a < b /\ settled[a] > settled[b]

\* C4: parallelChunked always returns, and returns one outcome per item,
\* however many item actions fail.
RunnerCompleteness ==
    /\ rpc # "thrown"
    /\ rpc = "returned" => Len(results) = Len(items)

\* C5: a remote call failing for one item never leaves the runner as an error
\* and never stops the batch: once the run is over every item was attempted.
FailureIsolated ==
    (\E k \in TaskIds : task[k].err) =>
        /\ rpc # "thrown"
        /\ rpc = "returned" => \A k \in 1 .. Len(items) : task[k].invoked >= 1

\* C6: the actions in flight all belong to the chunk the loop is at, so there
\* are at most chunkSize of them and none of a later chunk has started.
ChunkBarrier ==
    /\ InFlight \subseteq Chunk(i)
    /\ Cardinality(InFlight) <= chunkSize
    /\ \A k \in TaskIds : k > i + chunkSize => task[k].st = "unstarted"

\* A later chunk is in flight, the chunk before it having ended out of order.
ChunkBarrierWitness ==
    /\ rpc = "running"
    /\ i > 0
    /\ chunkSize >= 2
    /\ InFlight = Chunk(i)
    /\ settled = <<2, 1>>

\* C7: in a run that completed, the action was invoked exactly once for each
\* item and issued its remote call exactly once.
AttemptOnce ==
    rpc = "returned" =>
        \A k \in TaskIds :
            IF k <= Len(items)
            THEN task[k].invoked = 1 /\ task[k].c1 = 1 /\ task[k].c2 <= 1
            ELSE task[k].invoked = 0 /\ task[k].c1 = 0 /\ task[k].c2 = 0

\* A delete-all run completed over several chunks with a failed item in it.
AttemptOnceWitness ==
    /\ rpc = "returned"
    /\ site = "deleteAllOrgs"
    /\ Len(items) > chunkSize
    /\ \E k \in TaskIds : task[k].err

\* C8: a fetch that returns was served a finite chain of m pages, returns the
\* concatenation of their items, and made exactly m page requests (absent
\* cursor first, then each page's next cursor) and m acquire() calls; on a
\* chain that runs in a circle it never returns.
AccumulatorExact ==
    fpc = "returned" =>
        /\ IsFiniteChain(pages)
        /\ acc = ItemsUpTo(pages, Len(pages))
        /\ Len(pageReqs) = Len(pages)
        /\ fetchAcqs = Len(pages)

\* A fetch has returned the items of a chain of MaxPages pages, one of them
\* empty.
AccumulatorExactWitness ==
    /\ fpc = "returned"
    /\ Len(pages) = MaxPages
    /\ Len(acc) >= 2
    /\ \E p \in 1 .. Len(pages) - 1 : pages[p].data = << >>

\* C9: once a page request of a fetchAll* has failed, the fetch has thrown and
\* never returns a collection, the handler that called it ends with that error
\* without asking for confirmation, and no item action is ever started, so no
\* delete call is issued.
PaginationFailurePropagates ==
    pageFailed =>
        /\ fpc = "thrown"
        /\ hpc \in {"fetch", "prompt", "exited"}
        /\ hpc # "fetch" => ended = "threw"
        /\ rpc = "idle"
        /\ \A k \in TaskIds : task[k].invoked = 0 /\ task[k].c1 = 0

\* A delete-all command has ended with the error of a page request that failed
\* after earlier pages had been accumulated.
PaginationFailureWitness ==
    /\ pageFailed
    /\ cmd \in DeleteAll
    /\ Len(acc) >= 1
    /\ hpc = "prompt"
    /\ ended = "threw"

\* C10: in deleteAllOrgs the skipped counter is the number of failed deletions
\* whose message holds a non-deletable phrase in any letter case, the failed
\* counter is the number of all other failed deletions (a missing message
\* included), every ended deletion is in exactly one counter, and the summary
\* reports the two counts apart.
SkipClassification ==
    /\ IsSkip(Messages[1])      \* "Organization cannot be deleted"
    /\ ~IsSkip(Messages[2])     \* "network timeout"
    /\ ~IsSkip(Missing)
    /\ cmd = "deleteAllOrgs" =>
        /\ counters.skipped = seen.nonDeletable
        /\ counters.failed = seen.other
        /\ counters.deleted + counters.skipped + counters.failed = Len(settled)
        /\ (hpc = "prompt" /\ ended = "returned" /\ rpc = "returned") =>
              /\ out[Len(out)].skipped = Shown(seen.nonDeletable)
              /\ out[Len(out)].failed = Shown(seen.other)

\* deleteAllOrgs has printed a summary with deleted, skipped and failed
\* organizations in it.
SkipClassificationWitness ==
    /\ cmd = "deleteAllOrgs"
    /\ hpc = "prompt"
    /\ ended = "returned"
    /\ rpc = "returned"
    /\ counters.deleted >= 1
    /\ counters.skipped >= 1
    /\ counters.failed >= 1

\* The commands that run a batch of remote writes, and the summary lines
\* ("Done - ...") a command has printed.
BulkActions == BulkCreate \cup {"createOrgMembership"} \cup DeleteAll
TallyLines == {j \in DOMAIN out : out[j].line = "tally"}
BulkDone ==
    /\ cmd \in BulkActions
    /\ hpc = "prompt"
    /\ ended = "returned"
    /\ rpc = "returned"

\* C11: a bulk action whose batch has run to its end has printed exactly one
\* tally line.
TallyOnce == BulkDone => Cardinality(TallyLines) = 1

\* The items of the batch whose remote call failed, those of them that
\* deleteAllOrgs saw as non-deletable left out.
FailedItems == Cardinality({k \in TaskIds : task[k].err}) - seen.nonDeletable

\* C12: the tally line of a bulk action holds the failed count whenever an item
\* failed and the skipped count whenever one was skipped, and leaves out the
\* count that is zero.
TallyContent ==
    BulkDone =>
        \A j \in TallyLines :
            /\ out[j].failed = Shown(FailedItems)
            /\ out[j].skipped = Shown(seen.nonDeletable)

\* C13, as stated: when a command starts, no limiter holds a live permit of
\* an earlier command of the process.
FreshWindowPerCommand ==
    (hpc = "prompt" /\ ncmd < MaxCmds) =>
        \A l \in LimiterNames : Purge(l, timestamps[l]) = << >>

\* C13, amended: the rate limiters live as long as the process, and their
\* permit windows are carried from one command to the next; everything else
\* starts fresh in every command: the accumulator of a fetch holds the pages
\* served to this command only, the batch is the collection this command
\* fetched, and the counters count only the items this command has ended.
InvocationStateFresh ==
    /\ fpc = "returned" => acc = ItemsUpTo(pages, Len(pages))
    /\ (cmd = "deleteAllUsers" /\ rpc # "idle") =>
          /\ items = acc
          /\ counters.deleted + counters.failed = Len(settled)
          /\ counters.created = 0 /\ counters.skipped = 0

\* The second command of a process, a deleteAllUsers, has printed its summary
\* while a limiter still holds a live permit.
InvocationStateFreshWitness ==
    /\ ncmd = 2
    /\ cmd = "deleteAllUsers"
    /\ BulkDone
    /\ counters.deleted >= 1
    /\ \E l \in LimiterNames : Len(Purge(l, timestamps[l])) >= 1

\* The callers of the burst that are out of the limiter's queue: admitted, or
\* already back in their own code.
Admitted == {c \in 1 .. calls : acq[c].st # "waiting"}

\* C14: of K > N calls issued at one instant on a fresh limiter exactly N are
\* admitted at once; until the window W has passed since then no other call
\* is admitted; and the later admissions come in waves of at most N, no more
\* than N of them inside any window of width W.
BurstWaves ==
    sinceBurst >= 0 =>
        /\ sinceBurst < rateLimiters[RLInstance].windowMs =>
              /\ Cardinality(Admitted) = rateLimiters[RLInstance].maxRequests
              /\ \A c \in Admitted : acq[c].waits = 0
        /\ Len(recent[RLInstance]) <= rateLimiters[RLInstance].maxRequests

\* All of a burst of MaxBurst calls are admitted, the last of them after
\* having been suspended twice: the third wave.
BurstWavesWitness ==
    /\ sinceBurst >= 0
    /\ calls = MaxBurst
    /\ Admitted = 1 .. MaxBurst
    /\ \E c \in Admitted : acq[c].st = "granted" /\ acq[c].waits = 2

\* Caller c leaves this step admitted, or suspended (anew or again).
NowGranted(c) == acq[c].st # "granted" /\ acq'[c].st = "granted"
NowSuspended(c) ==
    /\ acq'[c].st = "waiting"
    /\ acq[c].st # "waiting" \/ acq'[c].timer > acq[c].timer

\* C15: a step that admits a caller, first call or wake-up alike, purges the
\* window, finds fewer than maxRequests live permits in it and appends
\* exactly one timestamp; a step that suspends a caller (again) found the
\* purged window full and appends nothing; no other step appends.
AtomicAdmission ==
    [][LET l == RLInstance
           kept == SelectSeq(timestamps[l],
                             LAMBDA age : age < rateLimiters[l].windowMs)
       IN  /\ \A c \in RLCallers :
                /\ NowGranted(c) =>
                      /\ Len(kept) < rateLimiters[l].maxRequests
                      /\ timestamps'[l] = Append(kept, 0)
                /\ NowSuspended(c) =>
                      /\ Len(kept) >= rateLimiters[l].maxRequests
                      /\ timestamps'[l] = kept
           /\ (\A c \in RLCallers : ~NowGranted(c)) =>
                 Len(timestamps'[l]) <= Len(timestamps[l])
      ]_vars

\* A caller that was woken found the window full again and waits once more.
AtomicAdmissionWitness ==
    \E c \in RLCallers : acq[c].st = "waiting" /\ acq[c].waits = 2

\* Every timestamp the limiter holds is younger than its window.
AllLive(l, ts) == \A j \in DOMAIN ts : ts[j] < rateLimiters[l].windowMs

\* C16, as stated: in every state every timestamp a limiter holds is within
\* windowMs of the current time.
WindowDataInvariant == \A l \in LimiterNames : AllLive(l, timestamps[l])

\* C16, amended: every admission decision leaves only timestamps younger than
\* windowMs in the sequence (it purges before it decides); between two
\* acquire() calls the sequence may hold expired entries.
PurgedAtDecision ==
    [][\A c \in RLCallers :
          (NowGranted(c) \/ NowSuspended(c)) =>
              AllLive(RLInstance, timestamps'[RLInstance])]_vars

\* A suspended caller has been admitted into a window from which every older
\* permit was purged.
PurgedAtDecisionWitness ==
    \E c \in RLCallers :
        /\ acq[c].st = "granted"
        /\ acq[c].waits >= 1
        /\ timestamps[RLInstance] = <<0>>

\* The page requests of the running fetch that have been answered, and the
\* items those answers carried.
Answered == Len(pageReqs) - (IF fpc \in {"request", "thrown"} THEN 1 ELSE 0)
RECURSIVE AnswerItems(_)
AnswerItems(n) ==
    IF n = 0 THEN << >> ELSE AnswerItems(n - 1) \o PageAt(pageReqs[n]).data

\* C17: the first page request of a fetch carries no cursor and every later
\* one the next-cursor of the answer before it; all requests but (at most) the
\* last have been answered, and their items accumulated, before the next one
\* goes out; and every request follows an acquire() of its own, which has
\* returned by then.
SequentialPagination ==
    fpc # "idle" =>
        /\ Len(pageReqs) >= 1 => pageReqs[1] = Absent
        /\ \A k \in 1 .. Len(pageReqs) - 1 :
              /\ pageReqs[k + 1].present
              /\ pageReqs[k + 1] = PageAt(pageReqs[k]).after
        /\ Answered \in {Len(pageReqs) - 1, Len(pageReqs)}
        /\ acc = AnswerItems(Answered)
        /\ fetchAcqs = Len(pageReqs) + (IF fpc = "acquire" THEN 1 ELSE 0)
        /\ fpc = "request" <=> Answered < Len(pageReqs) /\ fpc # "thrown"
        /\ fpc = "request" => acq[0].st = "none"

\* The third request of a fetch is outstanding, the two before it answered.
SequentialPaginationWitness ==
    /\ fpc = "request"
    /\ Len(pageReqs) = 3
    /\ pageReqs[3] = Token(3)
    /\ Len(acc) >= 2

\* An item action of the batch has started (and so has called acquire() on
\* its write limiter), or a write limiter has granted a permit.
BatchTouched ==
    \/ rpc # "idle"
    \/ \E k \in TaskIds : task[k].invoked > 0 \/ task[k].c1 > 0
    \/ timestamps["userWrite"] # << >>
    \/ timestamps["deleteOrg"] # << >>
Shows(name) == \E j \in DOMAIN out : out[j].line = name

\* C18: in a delete-all command no delete call is issued and no write permit
\* acquired unless the whole collection has been fetched, it is not empty,
\* and the operator has answered yes; with an empty collection or another
\* answer the command ends without either.
ConfirmBeforeDelete ==
    (cmd \in DeleteAll /\ BatchTouched) =>
        /\ fpc = "returned"
        /\ acc = ItemsUpTo(pages, Len(pages))
        /\ acc # << >>
        /\ items = acc
        /\ Shows("typed yes")
        /\ ~Shows("typed no") /\ ~Shows("cancelled") /\ ~Shows("none found")

\* A delete call has been issued for a collection of several pages, after
\* the operator's yes.
ConfirmBeforeDeleteWitness ==
    /\ cmd \in DeleteAll
    /\ Len(pages) >= 2
    /\ Shows("typed yes")
    /\ \E k \in TaskIds : task[k].c1 = 1

\* C19: when a delete-all command prints its tally, every fetched item is in
\* exactly one counter: deleted counts the items whose delete call succeeded,
\* skipped and failed together the items whose call failed, the three add up
\* to the number of items fetched, and the tally shows the deleted count;
\* deleteAllUsers and deleteAllMemberships skip nothing.
CounterConservation ==
    (cmd \in DeleteAll /\ BulkDone) =>
        /\ counters.deleted + counters.skipped + counters.failed = Len(acc)
        /\ counters.deleted =
              Cardinality({k \in 1 .. Len(acc) : ~task[k].err})
        /\ counters.skipped + counters.failed =
              Cardinality({k \in 1 .. Len(acc) : task[k].err})
        /\ cmd # "deleteAllOrgs" => counters.skipped = 0
        /\ out[Len(out)].count = counters.deleted

\* A delete-all command has printed its tally for MaxItems items that ended
\* out of order, some deleted and some failed.
CounterConservationWitness ==
    /\ cmd \in DeleteAll
    /\ BulkDone
    /\ Len(acc) = MaxItems
    /\ counters.deleted >= 1
    /\ counters.failed >= 1
    /\ \E a, b \in 1 .. Len(settled) : a < b /\ settled[a] > settled[b]

\* The acquire() calls a caller has made that have returned: those it made,
\* less the one it is still inside of.
Inside(c) == IF acq[c].st \in {"waiting", "granted"} THEN 1 ELSE 0
ItemAcquires(k) == task[k].invoked + (IF task[k].step = 2 THEN 1 ELSE 0)

\* C20: every remote call follows an acquire() of its own that has returned:
\* an item action has issued as many calls as acquire() calls of its have
\* returned (two of each for createUsers with an orgId, one otherwise), a
\* fetch as many page requests, and deleteOrg / deleteUser issue their call
\* with a permit of their limiter on record.
OnePermitPerCall ==
    /\ \A k \in TaskIds :
          /\ task[k].c1 + task[k].c2 = ItemAcquires(k) - Inside(k)
          /\ task[k].c2 > 0 => site = "createUsers" /\ withOrg
          /\ task[k].c1 <= 1 /\ task[k].c2 <= 1
    /\ fpc # "idle" => Len(pageReqs) = fetchAcqs - Inside(0)
    /\ (cmd \in Single /\ hpc = "call") =>
          /\ Inside(0) = 0
          /\ timestamps[IF cmd = "deleteOrg" THEN "deleteOrg"
                        ELSE "userWrite"] # << >>

\* createUsers with an orgId: one item has issued both of its calls while the
\* action of another item is suspended in acquire(), its call not issued.
OnePermitPerCallWitness ==
    /\ cmd = "createUsers"
    /\ withOrg
    /\ \E k \in TaskIds : task[k].c1 = 1 /\ task[k].c2 = 1
    /\ \E k \in TaskIds :
          acq[k].st = "waiting" /\ task[k].c1 + task[k].c2 < ItemAcquires(k)

=============================================================================
